---- MODULE Spec2Model ----
\* Deferred-operation builders of core/src/types/operator/operator_futures.rs:
\* OperatorFuture (new / map / into_future) and the eleven facades built on it.
EXTENDS Integers, Sequences, FiniteSets, TLC

\* ---------------------------------------------------------------- bounds
\* Builders an operator hands out in one behaviour.
MaxBuilders == 2
\* Setter calls made in one behaviour, over all builders.
MaxCalls == 2
\* Setter calls made on the builder of a behaviour that has one builder.
MaxSoloCalls == 2

Ids == 1..MaxBuilders

\* ---------------------------------------------------------------- values
\* Option<T>
None == <<>>
Some(v) == <<v>>

Accessors == {"fs", "s3"}
Paths == {"dir/a", "dir/b"}
Strs == {"text/plain", "v2"}
Sizes == {4, 8192}
Executors == {"exec1", "exec2"}
\* start..end, half open
Ranges == {<<0, 4>>, <<10, 20>>}
\* IntoIterator<Item = (String, String)>
MetaInputs == {<< <<"k", "v">> >>, << <<"j", "w">>, <<"j", "x">> >>}
\* The expiry a pre-signed builder is constructed with, and the buffer a write builder is.
Expire == 3600
Hello == <<104, 101, 108, 108, 111>>

Facades ==
  {"FutureStat", "FuturePresignStat", "FuturePresignRead", "FuturePresignWrite",
   "FutureRead", "FutureReader", "FutureWrite", "FutureWriter", "FutureDelete",
   "FutureList", "FutureLister"}

\* ---------------------------------------------------------------- payload records
\* The argument records are defined outside this file; they are plain records,
\* every optional field unset by default.
OpStat_default ==
  [if_match |-> None, if_none_match |-> None, version |-> None,
   override_content_disposition |-> None, override_cache_control |-> None,
   override_content_type |-> None]

OpRead_default ==
  [override_content_disposition |-> None, override_cache_control |-> None,
   override_content_type |-> None, if_match |-> None, if_none_match |-> None,
   version |-> None, executor |-> None, range |-> [offset |-> 0, size |-> None]]

OpReader_default == [concurrent |-> 1, chunk |-> None, gap |-> None]

OpWrite_default ==
  [append |-> FALSE, concurrent |-> 1, cache_control |-> None, content_type |-> None,
   content_disposition |-> None, executor |-> None, if_none_match |-> None,
   if_not_exists |-> FALSE, user_metadata |-> None]

OpWriter_default == [chunk |-> None]

OpDelete_default == [version |-> None]

OpList_default ==
  [limit |-> None, start_after |-> None, recursive |-> FALSE, version |-> FALSE]

\* range.into(): the byte range start..end as (offset, size)
BytesRange_from(range) == [offset |-> range[1], size |-> Some(range[2] - range[1])]

\* HashMap::from_iter(data): one entry per key, a later pair replacing an earlier one
HashMap_from_iter(data) ==
  [k \in {data[i][1] : i \in DOMAIN data} |->
     LET last == CHOOSE i \in DOMAIN data :
                   /\ data[i][1] = k
                   /\ \A j \in DOMAIN data : data[j][1] = k => j <= i
     IN  data[last][2]]

\* Field setters of the argument records: an updated copy, one field assigned.
OpStat_with_if_match(op, v) == [op EXCEPT !.if_match = Some(v)]
OpStat_with_if_none_match(op, v) == [op EXCEPT !.if_none_match = Some(v)]
OpStat_with_version(op, v) == [op EXCEPT !.version = Some(v)]
OpStat_with_override_content_disposition(op, v) == [op EXCEPT !.override_content_disposition = Some(v)]
OpStat_with_override_cache_control(op, v) == [op EXCEPT !.override_cache_control = Some(v)]
OpStat_with_override_content_type(op, v) == [op EXCEPT !.override_content_type = Some(v)]

OpRead_with_override_content_disposition(op, v) == [op EXCEPT !.override_content_disposition = Some(v)]
OpRead_with_override_cache_control(op, v) == [op EXCEPT !.override_cache_control = Some(v)]
OpRead_with_override_content_type(op, v) == [op EXCEPT !.override_content_type = Some(v)]
OpRead_with_if_match(op, v) == [op EXCEPT !.if_match = Some(v)]
OpRead_with_if_none_match(op, v) == [op EXCEPT !.if_none_match = Some(v)]
OpRead_with_version(op, v) == [op EXCEPT !.version = Some(v)]
OpRead_with_executor(op, v) == [op EXCEPT !.executor = Some(v)]
OpRead_with_range(op, v) == [op EXCEPT !.range = v]

OpReader_with_concurrent(op, v) == [op EXCEPT !.concurrent = v]
OpReader_with_chunk(op, v) == [op EXCEPT !.chunk = Some(v)]
OpReader_with_gap(op, v) == [op EXCEPT !.gap = Some(v)]

OpWrite_with_append(op, v) == [op EXCEPT !.append = v]
OpWrite_with_concurrent(op, v) == [op EXCEPT !.concurrent = v]
OpWrite_with_cache_control(op, v) == [op EXCEPT !.cache_control = Some(v)]
OpWrite_with_content_type(op, v) == [op EXCEPT !.content_type = Some(v)]
OpWrite_with_content_disposition(op, v) == [op EXCEPT !.content_disposition = Some(v)]
OpWrite_with_executor(op, v) == [op EXCEPT !.executor = Some(v)]
OpWrite_with_if_none_match(op, v) == [op EXCEPT !.if_none_match = Some(v)]
OpWrite_with_if_not_exists(op, v) == [op EXCEPT !.if_not_exists = v]
OpWrite_with_user_metadata(op, v) == [op EXCEPT !.user_metadata = Some(v)]

OpWriter_with_chunk(op, v) == [op EXCEPT !.chunk = Some(v)]

OpDelete_with_version(op, v) == [op EXCEPT !.version = Some(v)]

OpList_with_limit(op, v) == [op EXCEPT !.limit = Some(v)]
OpList_with_start_after(op, v) == [op EXCEPT !.start_after = Some(v)]
OpList_with_recursive(op, v) == [op EXCEPT !.recursive = v]
OpList_with_version(op, v) == [op EXCEPT !.version = v]

\* pub fn if_match(self, v: &str) -> Self: self.map(|args| args.with_if_match(v))
FutureStat_if_match(args, v) == OpStat_with_if_match(args, v)
\* pub fn if_none_match(self, v: &str) -> Self: self.map(|args| args.with_if_none_match(v))
FutureStat_if_none_match(args, v) == OpStat_with_if_none_match(args, v)
\* pub fn version(self, v: &str) -> Self: self.map(|args| args.with_version(v))
FutureStat_version(args, v) == OpStat_with_version(args, v)

\* pub fn override_content_disposition(self, v: &str) -> Self: self.map(|(args, dur)| (args.with_override_content_disposition(v), dur))
FuturePresignStat_override_content_disposition(args, v) == <<OpStat_with_override_content_disposition(args[1], v), args[2]>>
\* pub fn override_cache_control(self, v: &str) -> Self: self.map(|(args, dur)| (args.with_override_cache_control(v), dur))
FuturePresignStat_override_cache_control(args, v) == <<OpStat_with_override_cache_control(args[1], v), args[2]>>
\* pub fn override_content_type(self, v: &str) -> Self: self.map(|(args, dur)| (args.with_override_content_type(v), dur))
FuturePresignStat_override_content_type(args, v) == <<OpStat_with_override_content_type(args[1], v), args[2]>>
\* pub fn if_match(self, v: &str) -> Self: self.map(|(args, dur)| (args.with_if_match(v), dur))
FuturePresignStat_if_match(args, v) == <<OpStat_with_if_match(args[1], v), args[2]>>
\* pub fn if_none_match(self, v: &str) -> Self: self.map(|(args, dur)| (args.with_if_none_match(v), dur))
FuturePresignStat_if_none_match(args, v) == <<OpStat_with_if_none_match(args[1], v), args[2]>>

\* pub fn override_content_disposition(self, v: &str) -> Self: self.map(|(args, dur)| (args.with_override_content_disposition(v), dur))
FuturePresignRead_override_content_disposition(args, v) == <<OpRead_with_override_content_disposition(args[1], v), args[2]>>
\* pub fn override_cache_control(self, v: &str) -> Self: self.map(|(args, dur)| (args.with_override_cache_control(v), dur))
FuturePresignRead_override_cache_control(args, v) == <<OpRead_with_override_cache_control(args[1], v), args[2]>>
\* pub fn override_content_type(self, v: &str) -> Self: self.map(|(args, dur)| (args.with_override_content_type(v), dur))
FuturePresignRead_override_content_type(args, v) == <<OpRead_with_override_content_type(args[1], v), args[2]>>
\* pub fn if_match(self, v: &str) -> Self: self.map(|(args, dur)| (args.with_if_match(v), dur))
FuturePresignRead_if_match(args, v) == <<OpRead_with_if_match(args[1], v), args[2]>>
\* pub fn if_none_match(self, v: &str) -> Self: self.map(|(args, dur)| (args.with_if_none_match(v), dur))
FuturePresignRead_if_none_match(args, v) == <<OpRead_with_if_none_match(args[1], v), args[2]>>

\* pub fn content_type(self, v: &str) -> Self: self.map(|(args, dur)| (args.with_content_type(v), dur))
FuturePresignWrite_content_type(args, v) == <<OpWrite_with_content_type(args[1], v), args[2]>>
\* pub fn content_disposition(self, v: &str) -> Self: self.map(|(args, dur)| (args.with_content_disposition(v), dur))
FuturePresignWrite_content_disposition(args, v) == <<OpWrite_with_content_disposition(args[1], v), args[2]>>
\* pub fn cache_control(self, v: &str) -> Self: self.map(|(args, dur)| (args.with_cache_control(v), dur))
FuturePresignWrite_cache_control(args, v) == <<OpWrite_with_cache_control(args[1], v), args[2]>>

\* pub fn if_match(self, v: &str) -> Self: self.map(|(args, op_reader)| (args.with_if_match(v), op_reader))
FutureRead_if_match(args, v) == <<OpRead_with_if_match(args[1], v), args[2]>>
\* pub fn if_none_match(self, v: &str) -> Self: self.map(|(args, op_reader)| (args.with_if_none_match(v), op_reader))
FutureRead_if_none_match(args, v) == <<OpRead_with_if_none_match(args[1], v), args[2]>>
\* pub fn version(self, v: &str) -> Self: self.map(|(args, op_reader)| (args.with_version(v), op_reader))
FutureRead_version(args, v) == <<OpRead_with_version(args[1], v), args[2]>>
\* pub fn executor(self, executor: Executor) -> Self: self.map(|(args, op_reader)| (args.with_executor(executor), op_reader))
FutureRead_executor(args, v) == <<OpRead_with_executor(args[1], v), args[2]>>
\* pub fn range(self, range: impl RangeBounds<u64>) -> Self: self.map(|(args, op_reader)| (args.with_range(range.into()), op_reader))
FutureRead_range(args, v) == <<OpRead_with_range(args[1], BytesRange_from(v)), args[2]>>
\* A concurrency setter that was copied from chunk and still assigns the chunk size too.
FutureRead_concurrent_copied(args, v) ==
  <<args[1], OpReader_with_chunk(OpReader_with_concurrent(args[2], v), v)>>

\* pub fn concurrent(self, concurrent: usize) -> Self: self.map(|(args, op_reader)| (args, op_reader.with_concurrent(concurrent)))
FutureRead_concurrent(args, v) == <<args[1], OpReader_with_concurrent(args[2], v)>>
\* pub fn chunk(self, chunk_size: usize) -> Self: self.map(|(args, op_reader)| (args, op_reader.with_chunk(chunk_size)))
FutureRead_chunk(args, v) == <<args[1], OpReader_with_chunk(args[2], v)>>

\* pub fn version(self, v: &str) -> Self: self.map(|(op_read, op_reader)| (op_read.with_version(v), op_reader))
FutureReader_version(args, v) == <<OpRead_with_version(args[1], v), args[2]>>
\* pub fn concurrent(self, concurrent: usize) -> Self: self.map(|(op_read, op_reader)| (op_read, op_reader.with_concurrent(concurrent)))
FutureReader_concurrent(args, v) == <<args[1], OpReader_with_concurrent(args[2], v)>>
\* pub fn chunk(self, chunk_size: usize) -> Self: self.map(|(op_read, op_reader)| (op_read, op_reader.with_chunk(chunk_size)))
FutureReader_chunk(args, v) == <<args[1], OpReader_with_chunk(args[2], v)>>
\* pub fn gap(self, gap_size: usize) -> Self: self.map(|(op_read, op_reader)| (op_read, op_reader.with_gap(gap_size)))
FutureReader_gap(args, v) == <<args[1], OpReader_with_gap(args[2], v)>>

\* pub fn append(self, v: bool) -> Self: self.map(|(args, options, bs)| (args.with_append(v), options, bs))
FutureWrite_append(args, v) == <<OpWrite_with_append(args[1], v), args[2], args[3]>>
\* A chunk setter that rebuilds the tuple around an empty buffer.
FutureWrite_chunk_empty(args, v) == <<args[1], OpWriter_with_chunk(args[2], v), <<>>>>

\* pub fn chunk(self, v: usize) -> Self: self.map(|(args, options, bs)| (args, options.with_chunk(v), bs))
FutureWrite_chunk(args, v) == <<args[1], OpWriter_with_chunk(args[2], v), args[3]>>
\* pub fn concurrent(self, v: usize) -> Self: self.map(|(args, options, bs)| (args.with_concurrent(v), options, bs))
FutureWrite_concurrent(args, v) == <<OpWrite_with_concurrent(args[1], v), args[2], args[3]>>
\* A cache-control setter that does what its doc comment says and sets the content type.
FutureWrite_cache_control_as_doc(args, v) ==
  <<OpWrite_with_content_type(args[1], v), args[2], args[3]>>

\* pub fn cache_control(self, v: &str) -> Self: self.map(|(args, options, bs)| (args.with_cache_control(v), options, bs))
FutureWrite_cache_control(args, v) == <<OpWrite_with_cache_control(args[1], v), args[2], args[3]>>
\* pub fn content_type(self, v: &str) -> Self: self.map(|(args, options, bs)| (args.with_content_type(v), options, bs))
FutureWrite_content_type(args, v) == <<OpWrite_with_content_type(args[1], v), args[2], args[3]>>
\* pub fn content_disposition(self, v: &str) -> Self: self.map(|(args, options, bs)| (args.with_content_disposition(v), options, bs))
FutureWrite_content_disposition(args, v) == <<OpWrite_with_content_disposition(args[1], v), args[2], args[3]>>
\* pub fn executor(self, executor: Executor) -> Self: self.map(|(args, options, bs)| (args.with_executor(executor), options, bs))
FutureWrite_executor(args, v) == <<OpWrite_with_executor(args[1], v), args[2], args[3]>>
\* pub fn if_none_match(self, s: &str) -> Self: self.map(|(args, options, bs)| (args.with_if_none_match(s), options, bs))
FutureWrite_if_none_match(args, v) == <<OpWrite_with_if_none_match(args[1], v), args[2], args[3]>>
\* pub fn if_not_exists(self, b: bool) -> Self: self.map(|(args, options, bs)| (args.with_if_not_exists(b), options, bs))
FutureWrite_if_not_exists(args, v) == <<OpWrite_with_if_not_exists(args[1], v), args[2], args[3]>>
\* A metadata setter that extends the map already set instead of replacing it.
FutureWrite_user_metadata_merged(args, v) ==
  LET old == IF args[1].user_metadata = None THEN <<>> ELSE args[1].user_metadata[1]
      new == HashMap_from_iter(v)
      merged == [k \in DOMAIN old \cup DOMAIN new |->
                   IF k \in DOMAIN new THEN new[k] ELSE old[k]]
  IN  <<OpWrite_with_user_metadata(args[1], merged), args[2], args[3]>>

\* pub fn user_metadata(self, data: impl IntoIterator<Item = (String, String)>) -> Self: self.map(|(args, options, bs)| { ( args.with_user_metadata(HashMap::from_iter(data)), options, bs, ) })
FutureWrite_user_metadata(args, v) == <<OpWrite_with_user_metadata(args[1], HashMap_from_iter(v)), args[2], args[3]>>

\* pub fn append(self, v: bool) -> Self: self.map(|(args, options)| (args.with_append(v), options))
FutureWriter_append(args, v) == <<OpWrite_with_append(args[1], v), args[2]>>
\* pub fn chunk(self, v: usize) -> Self: self.map(|(args, options)| (args, options.with_chunk(v)))
FutureWriter_chunk(args, v) == <<args[1], OpWriter_with_chunk(args[2], v)>>
\* pub fn concurrent(self, v: usize) -> Self: self.map(|(args, options)| (args.with_concurrent(v), options))
FutureWriter_concurrent(args, v) == <<OpWrite_with_concurrent(args[1], v), args[2]>>
\* pub fn cache_control(self, v: &str) -> Self: self.map(|(args, options)| (args.with_cache_control(v), options))
FutureWriter_cache_control(args, v) == <<OpWrite_with_cache_control(args[1], v), args[2]>>
\* pub fn content_type(self, v: &str) -> Self: self.map(|(args, options)| (args.with_content_type(v), options))
FutureWriter_content_type(args, v) == <<OpWrite_with_content_type(args[1], v), args[2]>>
\* pub fn content_disposition(self, v: &str) -> Self: self.map(|(args, options)| (args.with_content_disposition(v), options))
FutureWriter_content_disposition(args, v) == <<OpWrite_with_content_disposition(args[1], v), args[2]>>
\* pub fn executor(self, executor: Executor) -> Self: self.map(|(args, options)| (args.with_executor(executor), options))
FutureWriter_executor(args, v) == <<OpWrite_with_executor(args[1], v), args[2]>>
\* pub fn user_metadata(self, data: impl IntoIterator<Item = (String, String)>) -> Self: self.map(|(args, options)| (args.with_user_metadata(HashMap::from_iter(data)), options))
FutureWriter_user_metadata(args, v) == <<OpWrite_with_user_metadata(args[1], HashMap_from_iter(v)), args[2]>>

\* pub fn version(self, v: &str) -> Self: self.map(|args| args.with_version(v))
FutureDelete_version(args, v) == OpDelete_with_version(args, v)

\* pub fn limit(self, v: usize) -> Self: self.map(|args| args.with_limit(v))
FutureList_limit(args, v) == OpList_with_limit(args, v)
\* pub fn start_after(self, v: &str) -> Self: self.map(|args| args.with_start_after(v))
FutureList_start_after(args, v) == OpList_with_start_after(args, v)
\* pub fn recursive(self, v: bool) -> Self: self.map(|args| args.with_recursive(v))
FutureList_recursive(args, v) == OpList_with_recursive(args, v)
\* pub fn version(self, v: bool) -> Self: self.map(|args| args.with_version(v))
FutureList_version(args, v) == OpList_with_version(args, v)

\* pub fn limit(self, v: usize) -> Self: self.map(|args| args.with_limit(v))
FutureLister_limit(args, v) == OpList_with_limit(args, v)
\* pub fn start_after(self, v: &str) -> Self: self.map(|args| args.with_start_after(v))
FutureLister_start_after(args, v) == OpList_with_start_after(args, v)
\* pub fn recursive(self, v: bool) -> Self: self.map(|args| args.with_recursive(v))
FutureLister_recursive(args, v) == OpList_with_recursive(args, v)
\* pub fn version(self, v: bool) -> Self: self.map(|args| args.with_version(v))
FutureLister_version(args, v) == OpList_with_version(args, v)
\* The payload shape of each facade: the type alias's first parameter.
Shape(facade) ==
  CASE facade = "FutureStat" -> <<"OpStat">>
    [] facade = "FuturePresignStat" -> <<"OpStat", "Duration">>
    [] facade = "FuturePresignRead" -> <<"OpRead", "Duration">>
    [] facade = "FuturePresignWrite" -> <<"OpWrite", "Duration">>
    [] facade = "FutureRead" -> <<"OpRead", "OpReader">>
    [] facade = "FutureReader" -> <<"OpRead", "OpReader">>
    [] facade = "FutureWrite" -> <<"OpWrite", "OpWriter", "Buffer">>
    [] facade = "FutureWriter" -> <<"OpWrite", "OpWriter">>
    [] facade = "FutureDelete" -> <<"OpDelete">>
    [] facade = "FutureList" -> <<"OpList">>
    [] facade = "FutureLister" -> <<"OpList">>

\* The setters each facade's impl block declares.
Setters(facade) ==
  CASE facade = "FutureStat" -> {"if_match", "if_none_match", "version"}
    [] facade = "FuturePresignStat" -> {"override_content_disposition", "override_cache_control", "override_content_type", "if_match", "if_none_match"}
    [] facade = "FuturePresignRead" -> {"override_content_disposition", "override_cache_control", "override_content_type", "if_match", "if_none_match"}
    [] facade = "FuturePresignWrite" -> {"content_type", "content_disposition", "cache_control"}
    [] facade = "FutureRead" -> {"if_match", "if_none_match", "version", "executor", "range", "concurrent", "chunk"}
    [] facade = "FutureReader" -> {"version", "concurrent", "chunk", "gap"}
    [] facade = "FutureWrite" -> {"append", "chunk", "concurrent", "cache_control", "content_type", "content_disposition", "executor", "if_none_match", "if_not_exists", "user_metadata"}
    [] facade = "FutureWriter" -> {"append", "chunk", "concurrent", "cache_control", "content_type", "content_disposition", "executor", "user_metadata"}
    [] facade = "FutureDelete" -> {"version"}
    [] facade = "FutureList" -> {"limit", "start_after", "recursive", "version"}
    [] facade = "FutureLister" -> {"limit", "start_after", "recursive", "version"}

\* The values a setter's parameter ranges over, by its declared type.
Values(facade, setter) ==
  CASE facade = "FutureStat" ->
         Strs
    [] facade = "FuturePresignStat" ->
         Strs
    [] facade = "FuturePresignRead" ->
         Strs
    [] facade = "FuturePresignWrite" ->
         Strs
    [] facade = "FutureRead" ->
         (CASE setter \in {"if_match", "if_none_match", "version"} -> Strs
            [] setter \in {"executor"} -> Executors
            [] setter \in {"range"} -> Ranges
            [] setter \in {"concurrent", "chunk"} -> Sizes)
    [] facade = "FutureReader" ->
         (CASE setter \in {"version"} -> Strs
            [] setter \in {"concurrent", "chunk", "gap"} -> Sizes)
    [] facade = "FutureWrite" ->
         (CASE setter \in {"append", "if_not_exists"} -> BOOLEAN
            [] setter \in {"chunk", "concurrent"} -> Sizes
            [] setter \in {"cache_control", "content_type", "content_disposition", "if_none_match"} -> Strs
            [] setter \in {"executor"} -> Executors
            [] setter \in {"user_metadata"} -> MetaInputs)
    [] facade = "FutureWriter" ->
         (CASE setter \in {"append"} -> BOOLEAN
            [] setter \in {"chunk", "concurrent"} -> Sizes
            [] setter \in {"cache_control", "content_type", "content_disposition"} -> Strs
            [] setter \in {"executor"} -> Executors
            [] setter \in {"user_metadata"} -> MetaInputs)
    [] facade = "FutureDelete" ->
         Strs
    [] facade = "FutureList" ->
         (CASE setter \in {"limit"} -> Sizes
            [] setter \in {"start_after"} -> Strs
            [] setter \in {"recursive", "version"} -> BOOLEAN)
    [] facade = "FutureLister" ->
         (CASE setter \in {"limit"} -> Sizes
            [] setter \in {"start_after"} -> Strs
            [] setter \in {"recursive", "version"} -> BOOLEAN)

\* The closures of impl FutureStat, by setter.
FutureStat_call(setter, args, v) ==
  CASE setter = "if_match" -> FutureStat_if_match(args, v)
    [] setter = "if_none_match" -> FutureStat_if_none_match(args, v)
    [] setter = "version" -> FutureStat_version(args, v)

\* The closures of impl FuturePresignStat, by setter.
FuturePresignStat_call(setter, args, v) ==
  CASE setter = "override_content_disposition" -> FuturePresignStat_override_content_disposition(args, v)
    [] setter = "override_cache_control" -> FuturePresignStat_override_cache_control(args, v)
    [] setter = "override_content_type" -> FuturePresignStat_override_content_type(args, v)
    [] setter = "if_match" -> FuturePresignStat_if_match(args, v)
    [] setter = "if_none_match" -> FuturePresignStat_if_none_match(args, v)

\* The closures of impl FuturePresignRead, by setter.
FuturePresignRead_call(setter, args, v) ==
  CASE setter = "override_content_disposition" -> FuturePresignRead_override_content_disposition(args, v)
    [] setter = "override_cache_control" -> FuturePresignRead_override_cache_control(args, v)
    [] setter = "override_content_type" -> FuturePresignRead_override_content_type(args, v)
    [] setter = "if_match" -> FuturePresignRead_if_match(args, v)
    [] setter = "if_none_match" -> FuturePresignRead_if_none_match(args, v)

\* The closures of impl FuturePresignWrite, by setter.
FuturePresignWrite_call(setter, args, v) ==
  CASE setter = "content_type" -> FuturePresignWrite_content_type(args, v)
    [] setter = "content_disposition" -> FuturePresignWrite_content_disposition(args, v)
    [] setter = "cache_control" -> FuturePresignWrite_cache_control(args, v)

\* The closures of impl FutureRead, by setter.
FutureRead_call(setter, args, v) ==
  CASE setter = "if_match" -> FutureRead_if_match(args, v)
    [] setter = "if_none_match" -> FutureRead_if_none_match(args, v)
    [] setter = "version" -> FutureRead_version(args, v)
    [] setter = "executor" -> FutureRead_executor(args, v)
    [] setter = "range" -> FutureRead_range(args, v)
    [] setter = "concurrent" -> FutureRead_concurrent(args, v)
    [] setter = "chunk" -> FutureRead_chunk(args, v)

\* The closures of impl FutureReader, by setter.
FutureReader_call(setter, args, v) ==
  CASE setter = "version" -> FutureReader_version(args, v)
    [] setter = "concurrent" -> FutureReader_concurrent(args, v)
    [] setter = "chunk" -> FutureReader_chunk(args, v)
    [] setter = "gap" -> FutureReader_gap(args, v)

\* The closures of impl FutureWrite, by setter.
FutureWrite_call(setter, args, v) ==
  CASE setter = "append" -> FutureWrite_append(args, v)
    [] setter = "chunk" -> FutureWrite_chunk(args, v)
    [] setter = "concurrent" -> FutureWrite_concurrent(args, v)
    [] setter = "cache_control" -> FutureWrite_cache_control(args, v)
    [] setter = "content_type" -> FutureWrite_content_type(args, v)
    [] setter = "content_disposition" -> FutureWrite_content_disposition(args, v)
    [] setter = "executor" -> FutureWrite_executor(args, v)
    [] setter = "if_none_match" -> FutureWrite_if_none_match(args, v)
    [] setter = "if_not_exists" -> FutureWrite_if_not_exists(args, v)
    [] setter = "user_metadata" -> FutureWrite_user_metadata(args, v)

\* The closures of impl FutureWriter, by setter.
FutureWriter_call(setter, args, v) ==
  CASE setter = "append" -> FutureWriter_append(args, v)
    [] setter = "chunk" -> FutureWriter_chunk(args, v)
    [] setter = "concurrent" -> FutureWriter_concurrent(args, v)
    [] setter = "cache_control" -> FutureWriter_cache_control(args, v)
    [] setter = "content_type" -> FutureWriter_content_type(args, v)
    [] setter = "content_disposition" -> FutureWriter_content_disposition(args, v)
    [] setter = "executor" -> FutureWriter_executor(args, v)
    [] setter = "user_metadata" -> FutureWriter_user_metadata(args, v)

\* The closures of impl FutureDelete, by setter.
FutureDelete_call(setter, args, v) ==
  CASE setter = "version" -> FutureDelete_version(args, v)

\* The closures of impl FutureList, by setter.
FutureList_call(setter, args, v) ==
  CASE setter = "limit" -> FutureList_limit(args, v)
    [] setter = "start_after" -> FutureList_start_after(args, v)
    [] setter = "recursive" -> FutureList_recursive(args, v)
    [] setter = "version" -> FutureList_version(args, v)

\* The closures of impl FutureLister, by setter.
FutureLister_call(setter, args, v) ==
  CASE setter = "limit" -> FutureLister_limit(args, v)
    [] setter = "start_after" -> FutureLister_start_after(args, v)
    [] setter = "recursive" -> FutureLister_recursive(args, v)
    [] setter = "version" -> FutureLister_version(args, v)

\* The closure a facade setter hands to map, applied to the payload.
call(f, args) ==
  CASE f.facade = "FutureStat" -> FutureStat_call(f.setter, args, f.v)
    [] f.facade = "FuturePresignStat" -> FuturePresignStat_call(f.setter, args, f.v)
    [] f.facade = "FuturePresignRead" -> FuturePresignRead_call(f.setter, args, f.v)
    [] f.facade = "FuturePresignWrite" -> FuturePresignWrite_call(f.setter, args, f.v)
    [] f.facade = "FutureRead" -> FutureRead_call(f.setter, args, f.v)
    [] f.facade = "FutureReader" -> FutureReader_call(f.setter, args, f.v)
    [] f.facade = "FutureWrite" -> FutureWrite_call(f.setter, args, f.v)
    [] f.facade = "FutureWriter" -> FutureWriter_call(f.setter, args, f.v)
    [] f.facade = "FutureDelete" -> FutureDelete_call(f.setter, args, f.v)
    [] f.facade = "FutureList" -> FutureList_call(f.setter, args, f.v)
    [] f.facade = "FutureLister" -> FutureLister_call(f.setter, args, f.v)

\* ---------------------------------------------------------------- the generic builder
\* The payload an entry point constructs its builder with.
DefaultArgs(facade) ==
  CASE facade = "FutureStat" -> OpStat_default
    [] facade = "FuturePresignStat" -> <<OpStat_default, Expire>>
    [] facade = "FuturePresignRead" -> <<OpRead_default, Expire>>
    [] facade = "FuturePresignWrite" -> <<OpWrite_default, Expire>>
    [] facade = "FutureRead" -> <<OpRead_default, OpReader_default>>
    [] facade = "FutureReader" -> <<OpRead_default, OpReader_default>>
    [] facade = "FutureWrite" -> <<OpWrite_default, OpWriter_default, Hello>>
    [] facade = "FutureWriter" -> <<OpWrite_default, OpWriter_default>>
    [] facade = "FutureDelete" -> OpDelete_default
    [] facade = "FutureList" -> OpList_default
    [] facade = "FutureLister" -> OpList_default

\* OperatorFuture::new
new(inner, path, args, f) == [acc |-> inner, path |-> path, args |-> args, f |-> f]

\* A map that rejects a chunk size on a payload in append mode.
map_validated(self, f) ==
  IF /\ self.f \in {"FutureWrite", "FutureWriter"}
     /\ f.setter = "chunk"
     /\ self.args[1].append
  THEN [kind |-> "ConfigInvalid"]
  ELSE [self EXCEPT !.args = call(f, self.args)]

\* A map that rebuilds the builder and loses the path.
map_rebuilt(self, f) == [self EXCEPT !.args = call(f, self.args), !.path = ""]

\* OperatorFuture::map: self.args = f(self.args); self
map(self, f) == [self EXCEPT !.args = call(f, self.args)]

\* The stored function: it moves the three arguments into a computation that has not
\* started.
Produce(f, acc, path, args) == [f |-> f, acc |-> acc, path |-> path, args |-> args]

\* A conversion that hands the stored function a fresh payload.
into_future_fresh(self) == Produce(self.f, self.acc, self.path, DefaultArgs(self.f))

\* IntoFuture::into_future: (self.f)(self.acc, self.path, self.args)
into_future(self) == Produce(self.f, self.acc, self.path, self.args)

\* What the accessor answers once the computation is driven. "s3" has no append mode.
Accessor_run(comp) ==
  IF /\ comp.acc = "s3"
     /\ comp.f \in {"FutureWrite", "FutureWriter"}
     /\ comp.args[1].append
  THEN [ok |-> FALSE, kind |-> "Unsupported"]
  ELSE [ok |-> TRUE, kind |-> "Ok"]

\* ---------------------------------------------------------------- state
VARIABLES
  op,        \* the operator handing out builders: its accessor and the entry point used
  owner,     \* per builder: "absent", "live", "consumed" (converted) or "dropped"
  builders,  \* per builder: the OperatorFuture value while it is live
  fut,       \* per builder: the computation into_future returned
  calls,     \* per builder: invocations of the stored function
  accOps,    \* per builder: operations the accessor has run for it
  result,    \* per builder: the outcome of the driven computation
  ctor,      \* per builder: the four values given to new
  hist       \* per builder: the setter calls made on it, in order

vars == <<op, owner, builders, fut, calls, accOps, result, ctor, hist>>

RECURSIVE SumLen(_, _)
SumLen(h, n) == IF n = 0 THEN 0 ELSE Len(h[n]) + SumLen(h, n - 1)

TotalCalls == SumLen(hist, MaxBuilders)

Init ==
  /\ op \in [acc : Accessors, entry : Facades]
  /\ owner = [b \in Ids |-> "absent"]
  /\ builders = [b \in Ids |-> None]
  /\ fut = [b \in Ids |-> None]
  /\ calls = [b \in Ids |-> 0]
  /\ accOps = [b \in Ids |-> 0]
  /\ result = [b \in Ids |-> None]
  /\ ctor = [b \in Ids |-> None]
  /\ hist = [b \in Ids |-> <<>>]

\* An entry point of the operator constructs a builder over the operator's accessor.
Construct(b, path) ==
  /\ owner[b] = "absent"
  /\ \A c \in Ids : c < b => owner[c] # "absent"
  /\ builders' = [builders EXCEPT ![b] = new(op.acc, path, DefaultArgs(op.entry), op.entry)]
  /\ ctor' = [ctor EXCEPT ![b] =
                [acc |-> op.acc, path |-> path, args |-> DefaultArgs(op.entry), f |-> op.entry]]
  /\ owner' = [owner EXCEPT ![b] = "live"]
  /\ UNCHANGED <<op, fut, calls, accOps, result, hist>>

\* A setter that runs the stored function at once instead of deferring it.
Configure_eager(b, setter, v) ==
  /\ owner[b] = "live"
  /\ builders' = [builders EXCEPT
                    ![b] = map(@, [facade |-> @.f, setter |-> setter, v |-> v])]
  /\ hist' = [hist EXCEPT ![b] = Append(@, <<setter, v>>)]
  /\ calls' = [calls EXCEPT ![b] = @ + 1]
  /\ UNCHANGED <<op, owner, fut, accOps, result, ctor>>

\* A setter whose payload lives behind the shared accessor: every live sibling sees it.
Configure_shared(b, setter, v) ==
  /\ owner[b] = "live"
  /\ builders' = [c \in Ids |->
                    IF owner[c] = "live"
                    THEN map(builders[c], [facade |-> builders[c].f, setter |-> setter, v |-> v])
                    ELSE builders[c]]
  /\ hist' = [hist EXCEPT ![b] = Append(@, <<setter, v>>)]
  /\ UNCHANGED <<op, owner, fut, calls, accOps, result, ctor>>

\* A facade setter: self.map(closure)
Configure(b, setter, v) ==
  /\ owner[b] = "live"
  /\ builders' = [builders EXCEPT
                    ![b] = map(@, [facade |-> @.f, setter |-> setter, v |-> v])]
  /\ hist' = [hist EXCEPT ![b] = Append(@, <<setter, v>>)]
  /\ UNCHANGED <<op, owner, fut, calls, accOps, result, ctor>>

\* A conversion that borrows the builder and leaves it usable.
IntoFuture_borrowing(b) ==
  /\ owner[b] = "live"
  /\ calls[b] < 2
  /\ fut' = [fut EXCEPT ![b] = Some(into_future(builders[b]))]
  /\ calls' = [calls EXCEPT ![b] = @ + 1]
  /\ UNCHANGED <<op, owner, builders, accOps, result, ctor, hist>>

\* builder.into_future(): the builder is moved into the call
IntoFuture(b) ==
  /\ owner[b] = "live"
  /\ fut' = [fut EXCEPT ![b] = Some(into_future(builders[b]))]
  /\ calls' = [calls EXCEPT ![b] = @ + 1]
  /\ builders' = [builders EXCEPT ![b] = None]
  /\ owner' = [owner EXCEPT ![b] = "consumed"]
  /\ UNCHANGED <<op, accOps, result, ctor, hist>>

\* The builder goes out of scope without being converted.
Drop(b) ==
  /\ owner[b] = "live"
  /\ builders' = [builders EXCEPT ![b] = None]
  /\ owner' = [owner EXCEPT ![b] = "dropped"]
  /\ UNCHANGED <<op, fut, calls, accOps, result, ctor, hist>>

\* The caller drives the computation to completion.
Poll(b) ==
  /\ fut[b] # None
  /\ result[b] = None
  /\ result' = [result EXCEPT ![b] = Some(Accessor_run(fut[b][1]))]
  /\ accOps' = [accOps EXCEPT ![b] = @ + 1]
  /\ UNCHANGED <<op, owner, builders, fut, calls, ctor, hist>>

\* An operator handing out up to MaxBuilders builders over its one accessor.
Next ==
  \/ \E b \in Ids, path \in Paths : Construct(b, path)
  \/ /\ TotalCalls < MaxCalls
     /\ \E b \in Ids : \E setter \in Setters(op.entry) : \E v \in Values(op.entry, setter) :
          Configure(b, setter, v)
  \/ \E b \in Ids : IntoFuture(b)
  \/ \E b \in Ids : Drop(b)
  \/ \E b \in Ids : Poll(b)

Spec == Init /\ [][Next]_vars

\* One builder, configured at greater length.
NextSolo ==
  \/ \E path \in Paths : Construct(1, path)
  \/ /\ Len(hist[1]) < MaxSoloCalls
     /\ \E setter \in Setters(op.entry) : \E v \in Values(op.entry, setter) :
          Configure(1, setter, v)
  \/ IntoFuture(1)
  \/ Drop(1)
  \/ Poll(1)

SpecSolo == Init /\ [][NextSolo]_vars

\* ---------------------------------------------------------------- properties
\* The payload that results from applying the setter calls h, in order, to args.
RECURSIVE ApplyAll(_, _, _)
ApplyAll(facade, args, h) ==
  IF h = <<>> THEN args
  ELSE ApplyAll(facade,
                call([facade |-> facade, setter |-> Head(h)[1], v |-> Head(h)[2]], args),
                Tail(h))

Unconverted(b) == owner[b] \in {"absent", "live", "dropped"}

NotRun(b) == calls[b] = 0 /\ accOps[b] = 0 /\ fut[b] = None /\ result[b] = None

\* C1: while a builder has only been constructed and configured, the stored function
\* and the accessor have run 0 times for it; a builder dropped unconverted stays
\* dropped, with both counts 0, from then on.
C1_NoPrematureExecution ==
  /\ \A b \in Ids : Unconverted(b) => NotRun(b)
  /\ [][/\ \A b \in Ids : Unconverted(b)' => NotRun(b)'
        /\ \A b \in Ids : owner[b] = "dropped" => owner'[b] = "dropped"]_vars

C1_Witness ==
  \E b \in Ids : owner[b] = "dropped" /\ Len(hist[b]) >= 2 /\ calls[b] = 0 /\ accOps[b] = 0

\* C2: the stored function runs at most once per builder, exactly once for a converted
\* builder; conversion leaves no builder value, and nothing but driving the computation
\* happens to a converted builder.
C2_SingleShot ==
  /\ \A b \in Ids : calls[b] = 0
  /\ [][\A b \in Ids :
          /\ calls'[b] <= 1
          /\ (owner'[b] = "consumed") <=> (calls'[b] = 1)
          /\ owner'[b] = "consumed" => builders'[b] = None
          /\ owner[b] = "consumed" =>
               /\ owner'[b] = "consumed"
               /\ calls'[b] = calls[b]
               /\ fut'[b] = fut[b]
               /\ hist'[b] = hist[b]]_vars

C2_Witness ==
  \E b \in Ids : owner[b] = "consumed" /\ calls[b] = 1 /\ result[b] # None /\ hist[b] # <<>>

\* C3: the computation a conversion returns is the stored function's value at the
\* accessor and path given to new and the payload given to new with the builder's
\* setter calls applied in the order they were made.
C3_ConversionFidelity ==
  \A b \in Ids :
    fut[b] # None =>
      fut[b][1] = Produce(ctor[b].f, ctor[b].acc, ctor[b].path,
                          ApplyAll(ctor[b].f, ctor[b].args, hist[b]))

C3_Witness ==
  \E b \in Ids :
    /\ fut[b] # None
    /\ Len(hist[b]) >= 2
    /\ hist[b][1][1] # hist[b][2][1]
    /\ fut[b][1].args # ctor[b].args

\* Element i of a facade's payload: the payload itself when it is one record.
Elem(facade, args, i) == IF Len(Shape(facade)) = 1 THEN args ELSE args[i]

IsRecordType(t) == t \notin {"Duration", "Buffer"}

\* The closure of a facade's setter, as the setter builds it.
Closure(facade, setter, v) == [facade |-> facade, setter |-> setter, v |-> v]

\* after differs from before in no field but the one named `setter`, and in no
\* element that is not an argument record.
OnlyField(facade, setter, before, after) ==
  \A i \in 1..Len(Shape(facade)) :
    LET x == Elem(facade, before, i)
        y == Elem(facade, after, i)
    IN  IF IsRecordType(Shape(facade)[i])
        THEN /\ DOMAIN y = DOMAIN x
             /\ \A fld \in DOMAIN x : fld # setter => y[fld] = x[fld]
        ELSE y = x

\* At most one element of the payload differs.
OneElement(facade, before, after) ==
  Cardinality({i \in 1..Len(Shape(facade)) :
                 Elem(facade, before, i) # Elem(facade, after, i)}) <= 1

C5_SetterIndependence ==
  \A b \in Ids :
    owner[b] = "live" =>
      \A s1 \in Setters(builders[b].f), s2 \in Setters(builders[b].f) :
        s1 # s2 =>
          \A v1 \in Values(builders[b].f, s1), v2 \in Values(builders[b].f, s2) :
            map(map(builders[b], Closure(builders[b].f, s1, v1)),
                Closure(builders[b].f, s2, v2))
            = map(map(builders[b], Closure(builders[b].f, s2, v2)),
                  Closure(builders[b].f, s1, v1))

C5_Witness ==
  \E b \in Ids :
    /\ owner[b] = "live"
    /\ builders[b].f = "FutureRead"
    /\ Len(hist[b]) = 2
    /\ hist[b][1][1] = "range"
    /\ hist[b][2][1] = "chunk"
    /\ builders[b].args =
         ApplyAll("FutureRead", ctor[b].args, <<hist[b][2], hist[b][1]>>)

\* C6: a live builder holds the accessor, path and stored function given to new, and
\* so does the builder any setter of its facade returns.
C6_TransformFrame ==
  \A b \in Ids :
    owner[b] = "live" =>
      /\ builders[b].acc = ctor[b].acc
      /\ builders[b].path = ctor[b].path
      /\ builders[b].f = ctor[b].f
      /\ \A setter \in Setters(builders[b].f) : \A v \in Values(builders[b].f, setter) :
           LET next == map(builders[b], Closure(builders[b].f, setter, v))
           IN  /\ next.acc = builders[b].acc
               /\ next.path = builders[b].path
               /\ next.f = builders[b].f

C6_Witness ==
  \E b \in Ids :
    /\ owner[b] = "live"
    /\ Len(hist[b]) >= 2
    /\ builders[b].args # ctor[b].args
    /\ builders[b].path = ctor[b].path

\* The tuple elements the two write facades have in common.
WriteArgs(args) == <<args[1], args[2]>>

\* C7: the open-writer facade has exactly the setters of the buffered write facade, and
\* each acts on the write-args and writer-tuning elements as the write facade's does.
C7_WriterMatchesWrite ==
  \A b \in Ids :
    (owner[b] = "live" /\ builders[b].f = "FutureWriter") =>
      /\ Setters("FutureWriter") \subseteq Setters("FutureWrite")
      /\ \A setter \in Setters("FutureWrite") :
           /\ setter \in Setters("FutureWriter")
           /\ \A v \in Values("FutureWrite", setter) :
                call(Closure("FutureWriter", setter, v), builders[b].args)
                = WriteArgs(call(Closure("FutureWrite", setter, v),
                                 <<builders[b].args[1], builders[b].args[2], Hello>>))

\* The setters whose field is not optional: the field holds the value itself.
PlainSetters(facade) ==
  {"append", "if_not_exists", "recursive", "concurrent"}
    \cup (IF facade \in {"FutureList", "FutureLister"} THEN {"version"} ELSE {})

TypeDefault(t) ==
  CASE t = "OpStat" -> OpStat_default
    [] t = "OpRead" -> OpRead_default
    [] t = "OpReader" -> OpReader_default
    [] t = "OpWrite" -> OpWrite_default
    [] t = "OpWriter" -> OpWriter_default
    [] t = "OpDelete" -> OpDelete_default
    [] t = "OpList" -> OpList_default

\* Field value x holds the value v that was supplied to the setter.
Holds(facade, setter, x, v) ==
  IF setter = "range"
  THEN x.offset = v[1] /\ x.size # None /\ x.offset + x.size[1] = v[2]
  ELSE IF setter = "user_metadata"
  THEN /\ x # None
       /\ DOMAIN x[1] = {v[i][1] : i \in DOMAIN v}
       /\ \A i \in DOMAIN v :
            (\A j \in DOMAIN v : v[j][1] = v[i][1] => j <= i) => x[1][v[i][1]] = v[i][2]
  ELSE IF setter \in PlainSetters(facade)
  THEN x = v
  ELSE x = Some(v)

DistinctSetters(h) == \A i \in DOMAIN h, j \in DOMAIN h : i # j => h[i][1] # h[j][1]

IsBuilder(x) == DOMAIN x = {"acc", "path", "args", "f"}

IsComputation(x) == DOMAIN x = {"f", "acc", "path", "args"}

\* C9: a live builder is a builder, every setter of its facade returns a builder for
\* every value, whatever the payload already holds, and converting it returns a
\* computation; no outcome exists before the computation is driven, and the outcome
\* is the accessor's answer.
C9_NoCoreErrors ==
  \A b \in Ids :
    /\ owner[b] = "live" =>
         /\ IsBuilder(builders[b])
         /\ \A setter \in Setters(builders[b].f) : \A v \in Values(builders[b].f, setter) :
              IsBuilder(map(builders[b], Closure(builders[b].f, setter, v)))
         /\ IsComputation(into_future(builders[b]))
    /\ owner[b] # "consumed" => result[b] = None /\ fut[b] = None
    /\ owner[b] = "consumed" =>
         /\ fut[b] # None
         /\ IsComputation(fut[b][1])
         /\ result[b] # None =>
              /\ accOps[b] = 1
              /\ result[b][1] = Accessor_run(fut[b][1])

C9_Witness ==
  \E b \in Ids :
    /\ result[b] # None
    /\ ~result[b][1].ok
    /\ \E i \in DOMAIN hist[b], j \in DOMAIN hist[b] :
         /\ i < j
         /\ hist[b][i] = <<"append", TRUE>>
         /\ hist[b][j][1] = "chunk"

\* Everything the model holds about builder b.
Slot(b) ==
  <<owner[b], builders[b], fut[b], calls[b], accOps[b], result[b], ctor[b], hist[b]>>

\* A builder's payload, and the payload its conversion passed on, is the payload it
\* was constructed with under its own setter calls.
OwnHistory ==
  \A b \in Ids :
    /\ owner[b] = "live" =>
         /\ builders[b].args = ApplyAll(ctor[b].f, ctor[b].args, hist[b])
         /\ builders[b].path = ctor[b].path
    /\ fut[b] # None =>
         /\ fut[b][1].args = ApplyAll(ctor[b].f, ctor[b].args, hist[b])
         /\ fut[b][1].path = ctor[b].path

\* C10: builders over one accessor do not affect each other: a step that changes
\* anything of one builder changes nothing of another, and each builder's payload
\* follows from the setter calls made on that builder alone.
C10_SiblingIsolation ==
  /\ OwnHistory
  /\ [][/\ OwnHistory'
        /\ \A b \in Ids, c \in Ids :
             (b # c /\ Slot(b)' # Slot(b)) => Slot(c)' = Slot(c)]_vars

C10_Witness ==
  \E b \in Ids, c \in Ids :
    /\ b # c
    /\ owner[b] = "consumed"
    /\ owner[c] = "live"
    /\ hist[b] # <<>>
    /\ hist[c] # <<>>
    /\ hist[b] # hist[c]
    /\ builders[c].acc = fut[b][1].acc

\* C11: on any live builder, calling a setter with v1 and then the same setter with v2
\* gives the builder that one call with v2 gives (so a repeated value changes
\* nothing more); a second user_metadata call leaves the map of its own pairs only.
C11_LastWriteWins ==
  \A b \in Ids :
    owner[b] = "live" =>
      \A setter \in Setters(builders[b].f) :
        \A v1 \in Values(builders[b].f, setter), v2 \in Values(builders[b].f, setter) :
          LET twice == map(map(builders[b], Closure(builders[b].f, setter, v1)),
                           Closure(builders[b].f, setter, v2))
          IN  /\ twice = map(builders[b], Closure(builders[b].f, setter, v2))
              /\ setter = "user_metadata" =>
                   DOMAIN twice.args[1].user_metadata[1] = {v2[i][1] : i \in DOMAIN v2}

C11_Witness ==
  \E b \in Ids :
    /\ owner[b] = "live"
    /\ builders[b].f = "FutureWrite"
    /\ Len(hist[b]) = 2
    /\ hist[b][1][1] = "user_metadata"
    /\ hist[b][2][1] = "user_metadata"
    /\ hist[b][1][2] # hist[b][2][2]
    /\ DOMAIN builders[b].args[1].user_metadata[1] = {hist[b][2][2][i][1] : i \in DOMAIN hist[b][2][2]}
    /\ DOMAIN builders[b].args[1].user_metadata[1]
         # {hist[b][1][2][i][1] : i \in DOMAIN hist[b][1][2]}

====
